---- MODULE Spec2Model ----
(***************************************************************************)
(* JMTLogger: the queue-backed delivery path of src/jmtlogger.             *)
(*                                                                         *)
(* Every process p of Procs constructs its own JMTLogger with one file     *)
(* sink: a MultiprocessingHandler (queue + daemon worker thread) wrapping  *)
(* its own SafeRotatingFileHandler, all on the same log file path.         *)
(* The application thread of p calls the logging verbs, emit(), start(),   *)
(* stop() and close(); the worker thread of p runs _worker().              *)
(*                                                                         *)
(* Four smaller parts stand beside the delivery path, each with its own    *)
(* specification, the variables of the other parts staying as they are:    *)
(* the rotation of a single file sink (RotSpec), ColoredFormatter and      *)
(* create_console_handler (ColorSpec), the levels of a JMTLogger and its   *)
(* handlers (LevelSpec), and JMTLogger objects sharing the loggers of the  *)
(* logging module by name (OwnerSpec).                                     *)
(***************************************************************************)
EXTENDS Naturals, Sequences, FiniteSets

\* The processes that log to the same file path (tests/test_multiprocess.py).
Procs == {1, 2}

\* Number of records handed to emit(), over all processes.
MaxRecords == 2
\* Capacity of the delivery queue. multiprocessing.Queue() is built with no
\* maxsize, so the capacity is the platform's largest semaphore value; a small
\* one stands for it here, so that the Full path of put_nowait is taken.
\* Records and sentinels both count against it.
MaxQueue == 2
\* Number of stop() and close() calls the processes make, all together.
MaxStops == 2
\* Number of start() calls the processes make, all together.
MaxStarts == 1

\* The sentinel stop() puts on the queue; records are numbered from 1.
None == 0

VARIABLES
    queue,        \* queue[p]: self._queue, a FIFO of record numbers and None
    wpc,          \* wpc[p]: position of the worker thread in _worker()
    cur,          \* cur[p]: the record the worker holds (None when it holds none)
    stop_event,   \* stop_event[p]: self._stop_event
    stream,       \* stream[p]: the file sink's stream, "open" or "closed"
    lock,         \* lock[i]: SafeRotatingFileHandler._lock of instance i:
                  \* "free", "held" by the worker, "orphaned" (held by a
                  \* process that has died)
    attached,     \* attached[p]: the handler is in self._logger.handlers
    caller,       \* caller[p]: position of the application thread
    file,         \* lines of the shared log file, <<process, record>>
    nextId,       \* nextId[p]: number of records handed to emit() of p's handler
    stops,        \* number of stop()/close() calls made so far
    starts,       \* number of start() calls made so far
    enqueued,     \* history: records accepted onto queue[p], in order
    forwarded,    \* history: records handed to the sink's emit, in order
    failed,       \* history: records whose sink write raised
    callerError,  \* history: an error reached the caller of emit()
    shut,         \* history: stop()/close() has returned and no start() since
    closed        \* history: close() of the handler has returned

handlerVars ==
    <<queue, wpc, cur, stop_event, stream, lock, attached, caller, file,
      nextId, stops, starts, enqueued, forwarded, failed, callerError, shut,
      closed>>

\* Largest maxBytes a file sink is built with. Sizes are counted in units of
\* ten bytes: 10 stands for max_file_size=100, 3 for a line of 30 bytes.
MaxMaxBytes == 10
\* Largest backupCount a file sink is built with.
MaxBackupCount == 2
\* Largest length of a formatted line, its newline counted.
MaxLineLen == 3
\* Number of records handed to the emit() of the single file sink.
MaxWrites == 5

\* One SafeRotatingFileHandler alone on its path, and the files of that path.
VARIABLES
    maxBytes,     \* self.maxBytes
    backupCount,  \* self.backupCount
    active,       \* content of the file at baseFilename: lines <<number, length>>
    backups,      \* backups[i]: content of the file baseFilename.i, where it exists
    written,      \* history: the lines emit() wrote, in order
    rotated       \* history: content of the active file at each doRollover()

rotVars == <<maxBytes, backupCount, active, backups, written, rotated>>

\* The rotation variables while the delivery path is looked at.
RotIdle ==
    /\ maxBytes = 0
    /\ backupCount = 0
    /\ active = <<>>
    /\ backups = <<>>
    /\ written = <<>>
    /\ rotated = <<>>

\* Number of lines the console handler formats.
MaxLines == 1

\* An environment variable that is not set.
Unset == "<unset>"

\* A console handler, its formatter, and what the formatter looks at.
VARIABLES
    environ,      \* os.environ: NO_COLOR, FORCE_COLOR and TERM
    isatty,       \* sys.stdout has isatty and sys.stdout.isatty() is true
    os_name,      \* os.name
    win10,        \* platform.version() is 10.x.y with y >= 10586
    formatter,    \* the formatter of the console handler
    console       \* history: the lines formatted, with what they were made from

colorVars == <<environ, isatty, os_name, win10, formatter, console>>

\* No formatter has been made.
NoFormatter ==
    [class |-> "none", use_colors |-> FALSE, detected |-> "none", by |-> "none"]

\* The console variables while another part is looked at: they hold
\* nothing.
ColorIdle ==
    /\ environ = <<>>
    /\ isatty = FALSE
    /\ os_name = "posix"
    /\ win10 = FALSE
    /\ formatter = <<>>
    /\ console = <<>>

\* Number of messages logged through the JMTLogger whose level is looked at,
\* and number of set_level() calls on it.
MaxLogs == 2
MaxSetLevels == 1

\* The levels of one JMTLogger and of its handlers.
VARIABLES
    level,        \* self._logger.level
    hlevel,       \* hlevel[s]: level of the handler of sink s, for the sinks
                  \* the configuration asks for
    set_levels,   \* history: the levels given to set_level(), in order
    logged        \* history: the messages logged, with the sinks they reached

levelVars == <<level, hlevel, set_levels, logged>>

\* The level variables while another part is looked at.
LevelIdle ==
    /\ level = 0
    /\ hlevel = <<>>
    /\ set_levels = <<>>
    /\ logged = <<>>

\* Number of close() calls on the JMTLogger objects.
MaxCloses == 2

\* The JMTLogger objects the application makes, and the names it gives them.
Instances == {1, 2}
Names == {"app", "db"}

\* JMTLogger objects, the loggers of the logging module they use, and the
\* workers of their handlers. A handler is <<instance, sink>>.
VARIABLES
    ipc,              \* ipc[i]: how far the constructor of object i has come
    inst_name,        \* inst_name[i]: self.name of object i, "none" before
                      \* the object is made
    inst_sinks,       \* inst_sinks[i]: the sinks the configuration of object
                      \* i asks for
    logger_handlers,  \* logger_handlers[n]: logging.getLogger(n).handlers
    created,          \* history: created[i], the handlers object i made
    workers,          \* the handlers whose worker was started and on which
                      \* stop() has not been called
    closes            \* history: the objects whose close() was called, in order

ownerVars ==
    <<ipc, inst_name, inst_sinks, logger_handlers, created, workers, closes>>

\* No JMTLogger object has been made.
NoObjects ==
    /\ ipc = [i \in Instances |-> "new"]
    /\ inst_name = [i \in Instances |-> "none"]
    /\ inst_sinks = [i \in Instances |-> {}]
    /\ logger_handlers = [n \in Names |-> {}]
    /\ created = [i \in Instances |-> {}]
    /\ workers = {}
    /\ closes = <<>>

\* The same variables while another part is looked at: they hold nothing.
OwnerIdle ==
    /\ ipc = <<>>
    /\ inst_name = <<>>
    /\ inst_sinks = <<>>
    /\ logger_handlers = <<>>
    /\ created = <<>>
    /\ workers = {}
    /\ closes = <<>>

\* The state of the one further part that is looked at (a logging call with
\* exception info, a LoggerConfig, the threads of one handler, or the sinks
\* on one path), a record; the empty tuple while none of them is.
VARIABLES side

sideVars == <<side>>

SideIdle == side = <<>>

\* Largest number of MultiprocessingHandlers on the logger a record is
\* handed to (JMTLogger puts two: console and file).
MaxHandlers == 2

\* One logging call and its record on the way to the sinks.
\* Its fields:
\*   record: the LogRecord of the call (msg, exc_info, exc_text,
\*       stack_info; bad_args: msg % args raises);
\*   logged: exc_info and stack_info as the call made them;
\*   handlers: number of handlers of the logger; at: the next
\*       handler Logger.callHandlers hands the record to;
\*   queue[h]: self._queue of handler h;
\*   enqueued: history of <<h, record as put on the queue>>;
\*   output: history of <<h, text the sink of h wrote>>
handling == side

\* A LoggerConfig on its way through to_dict and from_dict.
\* Its fields:
\*   args: the arguments LoggerConfig(...) is called with;
\*   c: the object after __post_init__; d: c.to_dict();
\*   c2: LoggerConfig.from_dict(d); dirs: the directories made;
\*   step: how far the round trip has come
cfg == side

\* Largest number of worker threads made for one handler, the one made by
\* its constructor counted.
MaxThreads == 3

\* The application threads that call start() and stop() on one handler.
Callers == {1, 2}

\* One MultiprocessingHandler with several application threads calling its
\* start() and stop().
\* Its fields:
\*   made: number of worker threads made so far, numbered from 1;
\*   alive: the worker threads that have not finished;
\*   thread: self._thread; stop_event: self._stop_event;
\*   sentinels: number of None items in self._queue;
\*   at[c]: where caller c is ("idle", "start": past the test of
\*       start(), "join": in the join of stop());
\*   joined[c]: the thread caller c waits for
life == side

\* Largest maxBytes of the file sinks that share a path, and the number of
\* records handed to their emit().
MaxSharedBytes == 4
MaxAppends == 4

\* The file sinks of the processes of Procs, all on one path, and the files
\* of that path. A file is known by its number (the inode), whatever name
\* it has.
\* Its fields:
\*   maxBytes, backupCount: as the sinks were built;
\*   files[k]: the lines of file k, a line as <<number, bytes>>;
\*   path: the file at the base file name;
\*   names[j]: the file at base name + "." + j, where one exists;
\*   stream[p]: the file the stream of p's sink is open on;
\*   appends: history, for every line written: by which sink,
\*       into which file, and the file at the path at that moment;
\*   rolls: history, for every rollover: by which sink, and the
\*       file whose size made the sink roll over
shared == side

\* What the actions of the delivery path leave alone.
aux == <<rotVars, colorVars, levelVars, ownerVars, sideVars>>

\* What the actions of each other part leave alone.
exceptRot == <<handlerVars, colorVars, levelVars, ownerVars, sideVars>>
exceptColor == <<handlerVars, rotVars, levelVars, ownerVars, sideVars>>
exceptLevel == <<handlerVars, rotVars, colorVars, ownerVars, sideVars>>
exceptOwner == <<handlerVars, rotVars, colorVars, levelVars, sideVars>>
exceptSide == <<handlerVars, rotVars, colorVars, levelVars, ownerVars>>

vars == <<handlerVars, aux>>

Records == 1..MaxRecords

Range(s) == {s[i] : i \in 1..Len(s)}

RECURSIVE SumOver(_, _)
SumOver(f, S) ==
    IF S = {} THEN 0
    ELSE LET x == CHOOSE y \in S : TRUE IN f[x] + SumOver(f, S \ {x})

\* The calls counted by f, over all processes.
Total(f) == SumOver(f, Procs)

\* MultiprocessingHandler.__init__ and JMTLogger.__init__: the queue is empty,
\* start() has run (event clear, worker alive at the top of its loop), the
\* file stream is open (delay=False), the handler is attached to the logger.
HandlersInit ==
    /\ queue = [p \in Procs |-> <<>>]
    /\ wpc = [p \in Procs |-> "loop"]
    /\ cur = [p \in Procs |-> None]
    /\ stop_event = [p \in Procs |-> FALSE]
    /\ stream = [p \in Procs |-> "open"]
    /\ lock = [p \in Procs |-> "free"]
    /\ attached = [p \in Procs |-> TRUE]
    /\ caller = [p \in Procs |-> "idle"]
    /\ file = <<>>
    /\ nextId = [p \in Procs |-> 0]
    /\ stops = 0
    /\ starts = 0
    /\ enqueued = [p \in Procs |-> <<>>]
    /\ forwarded = [p \in Procs |-> <<>>]
    /\ failed = [p \in Procs |-> {}]
    /\ callerError = [p \in Procs |-> FALSE]
    /\ shut = [p \in Procs |-> FALSE]
    /\ closed = [p \in Procs |-> FALSE]

Init ==
    /\ HandlersInit /\ RotIdle /\ ColorIdle /\ LevelIdle /\ OwnerIdle
    /\ SideIdle

\* self._thread.is_alive()
is_alive(p) == wpc[p] # "done"

\* put_nowait raises Full when the queue's semaphore cannot be acquired.
QueueFull(p) == Len(queue[p]) >= MaxQueue

(***************************************************************************)
(* MultiprocessingHandler.emit (application thread)                        *)
(***************************************************************************)

\* What fails inside the try block of emit(): self.format(record) when the
\* record carries exc_info and formatting raises, else put_nowait when the
\* queue is full.
EmitFailure(p, exc_info, formatRaises) ==
    IF exc_info /\ formatRaises THEN "format"
    ELSE IF QueueFull(p) THEN "full"
    ELSE "none"

EmitSwallowsOnlyFull(kind) == kind = "full"

\* The bare "except: pass" of emit() catches every failure.
EmitSwallows(kind) == TRUE

\* emit(record): the record is numbered nextId[p] + 1. It is put on the queue,
\* or the failure is handled by the except clause and the record is gone.
emit(p, exc_info, formatRaises) ==
    LET n == nextId[p] + 1
        kind == EmitFailure(p, exc_info, formatRaises)
    IN  /\ nextId' = [nextId EXCEPT ![p] = n]
        /\ IF kind = "none"
           THEN /\ queue' = [queue EXCEPT ![p] = Append(@, n)]
                /\ enqueued' = [enqueued EXCEPT ![p] = Append(@, n)]
                /\ UNCHANGED callerError
           ELSE /\ callerError' = [callerError EXCEPT ![p] = @ \/ ~EmitSwallows(kind)]
                /\ UNCHANGED <<queue, enqueued>>

\* handler.emit(record) called on the MultiprocessingHandler itself.
Emit(p) ==
    /\ caller[p] = "idle"
    /\ Total(nextId) < MaxRecords
    /\ \E exc_info \in BOOLEAN, formatRaises \in BOOLEAN :
          emit(p, exc_info, formatRaises)
    /\ UNCHANGED <<aux, wpc, cur, stop_event, stream, lock, attached, caller, file,
                   stops, starts, forwarded, failed, shut, closed>>

\* A logging verb of JMTLogger (info, warning, exception, ...): the record goes
\* to every handler of self._logger.handlers; with no handler left it is
\* queued nowhere.
Verb(p) ==
    /\ caller[p] = "idle"
    /\ Total(nextId) < MaxRecords
    /\ IF attached[p]
       THEN \E exc_info \in BOOLEAN, formatRaises \in BOOLEAN :
               emit(p, exc_info, formatRaises)
       ELSE UNCHANGED <<nextId, queue, enqueued, callerError>>
    /\ UNCHANGED <<aux, wpc, cur, stop_event, stream, lock, attached, caller, file,
                   stops, starts, forwarded, failed, shut, closed>>

(***************************************************************************)
(* start / stop / close (application thread)                               *)
(***************************************************************************)

\* start(): a new worker thread only when none is alive.
Start(p) ==
    /\ caller[p] = "idle"
    /\ starts < MaxStarts
    /\ starts' = starts + 1
    /\ IF ~is_alive(p)
       THEN /\ stop_event' = [stop_event EXCEPT ![p] = FALSE]
            /\ wpc' = [wpc EXCEPT ![p] = "loop"]
            /\ shut' = [shut EXCEPT ![p] = FALSE]
       ELSE UNCHANGED <<stop_event, wpc, shut>>
    /\ UNCHANGED <<aux, queue, cur, stream, lock, attached, caller, file, nextId,
                   stops, enqueued, forwarded, failed, callerError,
                   closed>>

\* The first half of stop(), up to the join: with a live worker, set the event
\* and put the sentinel (put_nowait inside try/except: nothing when full).
\* `then` is where the caller waits in the join.
stop_signal(p, then) ==
    /\ stop_event' = [stop_event EXCEPT ![p] = TRUE]
    /\ queue' = [queue EXCEPT ![p] = IF QueueFull(p) THEN @ ELSE Append(@, None)]
    /\ caller' = [caller EXCEPT ![p] = then]

\* self._handler.close(): FileHandler.close sets the stream to None.
handler_close(p) ==
    /\ stream' = [stream EXCEPT ![p] = "closed"]
    /\ closed' = [closed EXCEPT ![p] = TRUE]

\* stop() on the MultiprocessingHandler.
Stop(p) ==
    /\ caller[p] = "idle"
    /\ stops < MaxStops
    /\ stops' = stops + 1
    /\ IF is_alive(p)
       THEN /\ stop_signal(p, "stop_join")
            /\ UNCHANGED shut
       ELSE /\ shut' = [shut EXCEPT ![p] = TRUE]
            /\ UNCHANGED <<stop_event, queue, caller>>
    /\ UNCHANGED <<aux, wpc, cur, stream, lock, attached, file, nextId, starts,
                   enqueued, forwarded, failed, callerError, closed>>

\* close() on the MultiprocessingHandler: stop(), then self._handler.close().
HandlerClose(p) ==
    /\ caller[p] = "idle"
    /\ stops < MaxStops
    /\ stops' = stops + 1
    /\ IF is_alive(p)
       THEN /\ stop_signal(p, "close_join")
            /\ UNCHANGED <<shut, stream, closed>>
       ELSE /\ handler_close(p)
            /\ shut' = [shut EXCEPT ![p] = TRUE]
            /\ UNCHANGED <<stop_event, queue, caller>>
    /\ UNCHANGED <<aux, wpc, cur, lock, attached, file, nextId, starts, enqueued,
                   forwarded, failed, callerError>>

\* JMTLogger.close(): close and remove every handler of the logger.
LoggerClose(p) ==
    /\ caller[p] = "idle"
    /\ stops < MaxStops
    /\ stops' = stops + 1
    /\ IF ~attached[p]
       THEN UNCHANGED <<stop_event, queue, caller, shut, stream, closed, attached>>
       ELSE IF is_alive(p)
       THEN /\ stop_signal(p, "logger_close_join")
            /\ UNCHANGED <<shut, stream, closed, attached>>
       ELSE /\ handler_close(p)
            /\ shut' = [shut EXCEPT ![p] = TRUE]
            /\ attached' = [attached EXCEPT ![p] = FALSE]
            /\ UNCHANGED <<stop_event, queue, caller>>
    /\ UNCHANGED <<aux, wpc, cur, lock, file, nextId, starts, enqueued, forwarded,
                   failed, callerError>>

\* The worker is inside self._handler.emit(record), where it can stay for any
\* length of time (a slow or blocked write); the loop test and the 0.1 s
\* queue.get are short against the 1.0 s of the join.
in_sink(p) == wpc[p] \in {"emit", "cs", "rest"}

JoinWithoutTimeout(p, timedOut) == ~is_alive(p)

\* self._thread.join(timeout=1.0) returns when the worker has finished, and
\* also when the timeout has elapsed with the worker still inside the sink.
JoinReturns(p, timedOut) == ~is_alive(p) \/ (timedOut /\ in_sink(p))

\* The join of stop() returns; close() goes on to close the sink, and
\* JMTLogger.close() to remove the handler from the logger.
JoinReturn(p) ==
    /\ caller[p] \in {"stop_join", "close_join", "logger_close_join"}
    /\ \E timedOut \in BOOLEAN : JoinReturns(p, timedOut)
    /\ caller' = [caller EXCEPT ![p] = "idle"]
    /\ shut' = [shut EXCEPT ![p] = TRUE]
    /\ IF caller[p] = "stop_join"
       THEN UNCHANGED <<stream, closed>>
       ELSE handler_close(p)
    /\ attached' = [attached EXCEPT ![p] = @ /\ caller[p] # "logger_close_join"]
    /\ UNCHANGED <<aux, queue, wpc, cur, stop_event, lock, file, nextId, stops,
                   starts, enqueued, forwarded, failed, callerError>>

(***************************************************************************)
(* _worker (worker thread) and the file sink it forwards to                *)
(***************************************************************************)

\* while not self._stop_event.is_set(): the loop test.
WorkerTest(p) ==
    /\ wpc[p] = "loop"
    /\ wpc' = [wpc EXCEPT ![p] = IF stop_event[p] THEN "done" ELSE "get"]
    /\ UNCHANGED <<aux, queue, cur, stop_event, stream, lock, attached, caller, file,
                   nextId, stops, starts, enqueued, forwarded, failed,
                   callerError, shut, closed>>

WorkerTakesLast(q) == <<q[Len(q)], SubSeq(q, 1, Len(q) - 1)>>

\* What self._queue.get hands over and what it leaves: the oldest item.
WorkerTakes(q) == <<Head(q), Tail(q)>>

\* record = self._queue.get(timeout=0.1): queue.Empty sends the worker back
\* to the loop test, the sentinel ends the thread, a record is handed to
\* self._handler.emit.
WorkerGet(p) ==
    /\ wpc[p] = "get"
    /\ IF queue[p] = <<>>
       THEN /\ wpc' = [wpc EXCEPT ![p] = "loop"]
            /\ UNCHANGED <<queue, cur, forwarded>>
       ELSE LET record == WorkerTakes(queue[p])[1]
            IN  /\ queue' = [queue EXCEPT ![p] = WorkerTakes(queue[p])[2]]
                /\ IF record = None
                   THEN /\ wpc' = [wpc EXCEPT ![p] = "done"]
                        /\ UNCHANGED <<cur, forwarded>>
                   ELSE /\ wpc' = [wpc EXCEPT ![p] = "emit"]
                        /\ cur' = [cur EXCEPT ![p] = record]
                        /\ forwarded' = [forwarded EXCEPT ![p] = Append(@, record)]
    /\ UNCHANGED <<aux, stop_event, stream, lock, attached, caller, file, nextId,
                   stops, starts, enqueued, failed, callerError, shut,
                   closed>>

\* The lock a SafeRotatingFileHandler takes in emit: self._lock, created by
\* the constructor of the instance, so one lock per instance.
LockOf(p) == p

\* with self._lock: entry of SafeRotatingFileHandler.emit.
SinkAcquire(p) ==
    /\ wpc[p] = "emit"
    /\ lock[LockOf(p)] = "free"
    /\ lock' = [lock EXCEPT ![LockOf(p)] = "held"]
    /\ wpc' = [wpc EXCEPT ![p] = "cs"]
    /\ UNCHANGED <<aux, queue, cur, stop_event, stream, attached, caller, file,
                   nextId, stops, starts, enqueued, forwarded, failed,
                   callerError, shut, closed>>

AfterSinkErrorExit == "done"

\* except Exception: pass -- the worker goes back to the loop test.
AfterSinkError == "loop"

\* super().emit(record) under the lock, then the release. The file handler
\* opens its stream again when it finds it closed, and appends the line; or
\* the write raises (the stream stays as it is, or was opened before the
\* failure) and the worker's except clause takes over.
SinkWrite(p) ==
    /\ wpc[p] = "cs"
    /\ \E ok \in BOOLEAN, opened \in BOOLEAN :
          IF ok
          THEN /\ stream' = [stream EXCEPT ![p] = "open"]
               /\ file' = Append(file, <<p, cur[p]>>)
               /\ wpc' = [wpc EXCEPT ![p] = "loop"]
               /\ UNCHANGED failed
          ELSE /\ stream' = [stream EXCEPT ![p] = IF opened THEN "open" ELSE @]
               /\ failed' = [failed EXCEPT ![p] = @ \cup {cur[p]}]
               /\ wpc' = [wpc EXCEPT ![p] = AfterSinkError]
               /\ UNCHANGED file
    /\ lock' = [lock EXCEPT ![LockOf(p)] = "free"]
    /\ cur' = [cur EXCEPT ![p] = None]
    /\ UNCHANGED <<aux, queue, stop_event, attached, caller, nextId, stops, starts,
                   enqueued, forwarded, callerError, shut, closed>>

\* stream.write(msg + self.terminator) and self.flush() when the operating
\* system takes the line in two writes: the first write of the flush is short
\* and only the head of the line is in the file. The worker still holds its
\* lock and still has the rest of the line to write.
SinkWriteShort(p) ==
    /\ wpc[p] = "cs"
    /\ stream' = [stream EXCEPT ![p] = "open"]
    /\ file' = Append(file, <<p, cur[p], "head">>)
    /\ wpc' = [wpc EXCEPT ![p] = "rest"]
    /\ UNCHANGED <<aux, queue, cur, stop_event, lock, attached, caller, nextId,
                   stops, starts, enqueued, forwarded, failed, callerError,
                   shut, closed>>

\* The flush writes the rest of the line and its terminator; emit returns and
\* the lock is released.
SinkWriteRest(p) ==
    /\ wpc[p] = "rest"
    /\ file' = Append(file, <<p, cur[p], "tail">>)
    /\ wpc' = [wpc EXCEPT ![p] = "loop"]
    /\ lock' = [lock EXCEPT ![LockOf(p)] = "free"]
    /\ cur' = [cur EXCEPT ![p] = None]
    /\ UNCHANGED <<aux, queue, stop_event, stream, attached, caller, nextId, stops,
                   starts, enqueued, forwarded, failed, callerError, shut,
                   closed>>

Next ==
    \E p \in Procs :
        \/ Verb(p)
        \/ Emit(p)
        \/ Start(p)
        \/ Stop(p)
        \/ HandlerClose(p)
        \/ LoggerClose(p)
        \/ JoinReturn(p)
        \/ WorkerTest(p)
        \/ WorkerGet(p)
        \/ SinkAcquire(p)
        \/ SinkWrite(p)

Spec == Init /\ [][Next]_vars

\* The scheduler runs the worker's loop test and its queue.get (which returns
\* after 0.1 s at the latest), and a join returns after 1.0 s at the latest.
\* Nothing is assumed of the sink: a write may block for ever.
StopSpec ==
    /\ Spec
    /\ \A p \in Procs :
          WF_vars(JoinReturn(p)) /\ WF_vars(WorkerTest(p)) /\ WF_vars(WorkerGet(p))

\* As StopSpec, with a sink whose lock is granted and whose writes return.
FairSpec ==
    /\ StopSpec
    /\ \A p \in Procs : WF_vars(SinkAcquire(p)) /\ WF_vars(SinkWrite(p))

\* The delivery path with a file system that may take a line in two writes.
ByteNext ==
    \/ Next
    \/ \E p \in Procs : SinkWriteShort(p) \/ SinkWriteRest(p)

ByteSpec == Init /\ [][ByteNext]_vars

\* self._lock is a multiprocessing.Lock: a child process forked from p holds
\* the same semaphore. Such a process takes the lock and is killed before it
\* releases it.
HolderDies(p) ==
    /\ lock[LockOf(p)] = "free"
    /\ lock' = [lock EXCEPT ![LockOf(p)] = "orphaned"]
    /\ UNCHANGED <<aux, queue, wpc, cur, stop_event, stream, attached, caller,
                   file, nextId, stops, starts, enqueued, forwarded, failed,
                   callerError, shut, closed>>

\* The delivery path with other holders of the sinks' locks.
LockNext ==
    \/ Next
    \/ \E p \in Procs : HolderDies(p)

\* The worker and the sink are scheduled as in FairSpec; nothing makes a
\* process die.
LockSpec ==
    /\ Init /\ [][LockNext]_vars
    /\ \A p \in Procs :
          /\ WF_vars(JoinReturn(p)) /\ WF_vars(WorkerTest(p))
          /\ WF_vars(WorkerGet(p))
          /\ WF_vars(SinkAcquire(p)) /\ WF_vars(SinkWrite(p))

(***************************************************************************)
(* SafeRotatingFileHandler: rotation, one sink alone on its path           *)
(* (emit, shouldRollover and doRollover of RotatingFileHandler, which the  *)
(* class inherits)                                                         *)
(***************************************************************************)

\* create_file_handler(log_file, formatter, max_file_size, backup_count) on a
\* path with no files: the stream is opened at once (delay=False), the
\* active file exists and is empty.
RotInit ==
    /\ HandlersInit
    /\ maxBytes \in 0..MaxMaxBytes
    /\ backupCount \in 0..MaxBackupCount
    /\ active = <<>>
    /\ backups = <<>>
    /\ written = <<>>
    /\ rotated = <<>>
    /\ ColorIdle
    /\ LevelIdle
    /\ OwnerIdle
    /\ SideIdle

RECURSIVE Bytes(_)
\* self.stream.tell() at the end of a file with content f.
Bytes(f) == IF f = <<>> THEN 0 ELSE Head(f)[2] + Bytes(Tail(f))

shouldRolloverAtOffset(n) == maxBytes > 0 /\ Bytes(active) >= maxBytes

\* shouldRollover(record): decided before the line is written.
shouldRollover(n) == maxBytes > 0 /\ Bytes(active) + n >= maxBytes

renameNothing(b, i) == b

\* os.remove(dfn) when it exists, os.rename(sfn, dfn): file .i becomes .i+1.
rename(b, i) ==
    [j \in (DOMAIN b \ {i}) \cup {i + 1} |-> IF j = i + 1 THEN b[i] ELSE b[j]]

RECURSIVE shift(_, _)
\* for i in range(self.backupCount - 1, 0, -1): every existing .i is renamed
\* to .i+1, from the highest suffix down.
shift(b, i) ==
    IF i < 1 THEN b
    ELSE shift(IF i \in DOMAIN b THEN rename(b, i) ELSE b, i - 1)

reopenKeeps(a, renamed) == a

\* self.stream = self._open(), in mode 'a': a new empty file when the base
\* file was renamed away, the same file with its content when it was not.
reopen(a, renamed) == IF renamed THEN <<>> ELSE a

\* doRollover(): <<active file, backups>> after it.
doRollover ==
    IF backupCount > 0
    THEN LET b == shift(backups, backupCount - 1)
         IN  <<reopen(active, TRUE),
               [j \in DOMAIN b \cup {1} |-> IF j = 1 THEN active ELSE b[j]]>>
    ELSE <<reopen(active, FALSE), backups>>

\* emit(record) of the file sink, for a record whose formatted line has n
\* bytes: the rollover when shouldRollover says so, then the write.
RotEmit ==
    /\ Len(written) < MaxWrites
    /\ \E n \in 1..MaxLineLen :
          LET line == <<Len(written) + 1, n>>
              roll == shouldRollover(n)
              after == IF roll THEN doRollover ELSE <<active, backups>>
          IN  /\ active' = Append(after[1], line)
              /\ backups' = after[2]
              /\ written' = Append(written, line)
              /\ rotated' = IF roll THEN Append(rotated, active) ELSE rotated
    /\ UNCHANGED <<exceptRot, maxBytes, backupCount>>

RotNext == RotEmit

RotSpec == RotInit /\ [][RotNext]_vars

(***************************************************************************)
(* ColoredFormatter and create_console_handler                             *)
(***************************************************************************)

\* Values of NO_COLOR and FORCE_COLOR, and of TERM.
FlagValues == {Unset, "", "1"}
TermValues ==
    {Unset, "dumb", "XTERM", "xterm-256color", "screen", "linux", "rxvt-color"}

\* record.levelname: the five standard names, and the name of a level added
\* by the application.
LevelNames == {"DEBUG", "INFO", "WARNING", "ERROR", "CRITICAL", "TRACE"}

\* Lines as super().format(record) returns them, as sequences of pieces.
BaseLines == {<<"m">>, <<"m", "n">>}

\* ANSI color codes of the class, ESC standing for the character \033.
COLORS ==
    [DEBUG |-> "ESC[36m", INFO |-> "ESC[32m", WARNING |-> "ESC[33m",
     ERROR |-> "ESC[31m", CRITICAL |-> "ESC[35m"]

RESET == "ESC[0m"

ColorInit ==
    /\ HandlersInit
    /\ RotIdle
    /\ LevelIdle
    /\ OwnerIdle
    /\ SideIdle
    /\ environ \in [NO_COLOR : FlagValues, FORCE_COLOR : FlagValues,
                     TERM : TermValues]
    /\ isatty \in BOOLEAN
    /\ os_name \in {"posix", "nt"}
    /\ win10 \in BOOLEAN
    /\ formatter = NoFormatter
    /\ console = <<>>

\* os.getenv(name, default)
getenv(name, default) ==
    IF environ[name] = Unset THEN default ELSE environ[name]

\* os.getenv(name) taken as a condition: set and not the empty string.
Truthy(name) == environ[name] # Unset /\ environ[name] # ""

\* str.lower() on the values of TERM.
lower(term) == IF term = "XTERM" THEN "xterm" ELSE term

\* 'color' in term or term in ['xterm', 'xterm-256color', 'screen', 'linux']
TermHasColor(term) ==
    \/ term \in {"xterm-256color", "rxvt-color"}
    \/ term \in {"xterm", "xterm-256color", "screen", "linux"}

\* ColoredFormatter._supports_color()
supports_color ==
    IF ~isatty THEN FALSE
    ELSE IF Truthy("NO_COLOR") THEN FALSE
    ELSE IF Truthy("FORCE_COLOR") THEN TRUE
    ELSE IF os_name = "nt" THEN win10
    ELSE TermHasColor(lower(getenv("TERM", "")))

\* ColoredFormatter.__init__(use_colors=arg): arg is "None", "True" or
\* "False"; on Windows _enable_windows_ansi() switches the colors off again
\* when the console mode cannot be set (ansi_ok false).
ColoredFormatterInit(arg, ansi_ok, by) ==
    LET chosen == IF arg = "None" THEN supports_color ELSE arg = "True"
    IN  [class |-> "ColoredFormatter",
         use_colors |-> IF chosen /\ os_name = "nt" THEN ansi_ok ELSE chosen,
         detected |-> IF arg # "None" THEN "none"
                      ELSE IF supports_color THEN "on" ELSE "off",
         by |-> by]

\* A logging.Formatter, which has no colors.
PlainFormatter(by) ==
    [class |-> "Formatter", use_colors |-> FALSE, detected |-> "none", by |-> by]

\* ColoredFormatter(fmt, use_colors=...) made by the application for its
\* console handler.
NewColoredFormatter ==
    /\ formatter.class = "none"
    /\ \E arg \in {"None", "True", "False"}, ansi_ok \in BOOLEAN :
          formatter' = ColoredFormatterInit(arg, ansi_ok, "application")
    /\ UNCHANGED <<exceptColor, environ, isatty, os_name, win10, console>>

\* The use_colors that create_console_handler gives to ColoredFormatter.
ConsoleColors == "True"

\* create_console_handler(formatter, use_colors) with a logging.Formatter, as
\* JMTLogger._setup_handlers calls it with config.use_colors.
CreateConsoleHandler ==
    /\ formatter.class = "none"
    /\ \E use_colors \in BOOLEAN, ansi_ok \in BOOLEAN :
          formatter' =
              IF use_colors
              THEN ColoredFormatterInit(ConsoleColors, ansi_ok,
                                        "create_console_handler")
              ELSE PlainFormatter("create_console_handler")
    /\ UNCHANGED <<exceptColor, environ, isatty, os_name, win10, console>>

formatNoReset(use_colors, levelname, base) ==
    IF use_colors /\ levelname \in DOMAIN COLORS
    THEN <<COLORS[levelname]>> \o base
    ELSE base

\* ColoredFormatter.format(record), base being super().format(record).
format(use_colors, levelname, base) ==
    IF ~use_colors THEN base
    ELSE LET level_color ==
                 IF levelname \in DOMAIN COLORS THEN COLORS[levelname] ELSE ""
         IN  IF level_color # ""
             THEN <<level_color>> \o base \o <<RESET>>
             ELSE base

\* The console handler formats a record with its formatter.
HandlerFormat ==
    /\ formatter.class # "none"
    /\ Len(console) < MaxLines
    /\ \E levelname \in LevelNames, base \in BaseLines :
          console' = Append(console,
              [levelname |-> levelname,
               base |-> base,
               formatter |-> formatter,
               text |-> IF formatter.class = "ColoredFormatter"
                        THEN format(formatter.use_colors, levelname, base)
                        ELSE base])
    /\ UNCHANGED <<exceptColor, environ, isatty, os_name, win10, formatter>>

ColorNext ==
    \/ NewColoredFormatter
    \/ CreateConsoleHandler
    \/ HandlerFormat

ColorSpec == ColorInit /\ [][ColorNext]_vars

(***************************************************************************)
(* JMTLogger: levels of the logger and of its handlers                     *)
(***************************************************************************)

\* The sinks a configuration can ask for.
Sinks == {"console", "file"}

\* logging.DEBUG ... logging.CRITICAL
levelno ==
    [DEBUG |-> 10, INFO |-> 20, WARNING |-> 30, ERROR |-> 40, CRITICAL |-> 50]

\* getattr(logging, level.upper(), logging.INFO) for a level given by name.
level_of(name) == IF name \in DOMAIN levelno THEN levelno[name] ELSE levelno.INFO

\* JMTLogger.__init__ with log_level, log_to_console and log_to_file: the
\* logger and every handler made by _setup_handlers get config.log_level.
LevelInit ==
    /\ HandlersInit
    /\ RotIdle
    /\ ColorIdle
    /\ OwnerIdle
    /\ SideIdle
    /\ \E name \in LevelNames, configured \in SUBSET Sinks :
          /\ level = level_of(name)
          /\ hlevel = [s \in configured |-> level_of(name)]
    /\ set_levels = <<>>
    /\ logged = <<>>

\* set_level(level): self._logger.setLevel(level) and nothing else to the
\* logger; the handlers keep the level they were made with.
SetLevel ==
    /\ Len(set_levels) < MaxSetLevels
    /\ \E name \in LevelNames :
          /\ level' = level_of(name)
          /\ set_levels' = Append(set_levels, level_of(name))
    /\ UNCHANGED <<exceptLevel, hlevel, logged>>

\* Logger.isEnabledFor(l)
isEnabledFor(l) == l >= level

\* Logger.callHandlers(record): the handlers whose level lets the record in.
callHandlers(l) == {s \in DOMAIN hlevel : l >= hlevel[s]}

\* debug(), info(), warning(), error(), critical(): the record is made when
\* the logger is enabled for its level, and handed to the handlers.
Log ==
    /\ Len(logged) < MaxLogs
    /\ \E name \in DOMAIN levelno :
          logged' = Append(logged,
              [levelno |-> levelno[name],
               set_levels |-> set_levels,
               sinks |-> IF isEnabledFor(levelno[name])
                         THEN callHandlers(levelno[name])
                         ELSE {}])
    /\ UNCHANGED <<exceptLevel, level, hlevel, set_levels>>

LevelNext ==
    \/ SetLevel
    \/ Log

LevelSpec == LevelInit /\ [][LevelNext]_vars

(***************************************************************************)
(* JMTLogger objects and the loggers of the logging module                 *)
(***************************************************************************)

OwnerInit ==
    /\ HandlersInit /\ RotIdle /\ ColorIdle /\ LevelIdle /\ NoObjects
    /\ SideIdle

\* JMTLogger(name=n, log_to_console=..., log_to_file=...), up to the call of
\* _setup_handlers: the logger is logging.getLogger(n), the same object for
\* every JMTLogger of that name, and its handlers list is cleared (no handler
\* in it is closed or stopped).
Begin(i) ==
    /\ ipc[i] = "new"
    /\ \E n \in Names, configured \in SUBSET Sinks :
          /\ inst_name' = [inst_name EXCEPT ![i] = n]
          /\ inst_sinks' = [inst_sinks EXCEPT ![i] = configured]
          /\ logger_handlers' = [logger_handlers EXCEPT ![n] = {}]
    /\ ipc' = [ipc EXCEPT ![i] = "console"]
    /\ UNCHANGED <<exceptOwner, created, workers, closes>>

\* A MultiprocessingHandler for sink s is made, which starts its worker, and
\* self._logger.addHandler puts it on the logger.
add_handler(i, s) ==
    /\ logger_handlers' =
           [logger_handlers EXCEPT ![inst_name[i]] = @ \cup {<<i, s>>}]
    /\ created' = [created EXCEPT ![i] = @ \cup {<<i, s>>}]
    /\ workers' = workers \cup {<<i, s>>}

\* _setup_handlers, first half: the console handler when log_to_console.
SetupConsole(i) ==
    /\ ipc[i] = "console"
    /\ IF "console" \in inst_sinks[i]
       THEN add_handler(i, "console")
       ELSE UNCHANGED <<logger_handlers, created, workers>>
    /\ ipc' = [ipc EXCEPT ![i] = "file"]
    /\ UNCHANGED <<exceptOwner, inst_name, inst_sinks, closes>>

\* _setup_handlers, second half: the file handler when log_to_file.
\* create_file_handler opens the file at once; when that raises, the error
\* leaves the constructor of the JMTLogger.
SetupFile(i) ==
    /\ ipc[i] = "file"
    /\ IF "file" \in inst_sinks[i]
       THEN \E opens \in BOOLEAN :
               IF opens
               THEN /\ add_handler(i, "file")
                    /\ ipc' = [ipc EXCEPT ![i] = "made"]
               ELSE /\ ipc' = [ipc EXCEPT ![i] = "raised"]
                    /\ UNCHANGED <<logger_handlers, created, workers>>
       ELSE /\ ipc' = [ipc EXCEPT ![i] = "made"]
            /\ UNCHANGED <<logger_handlers, created, workers>>
    /\ UNCHANGED <<exceptOwner, inst_name, inst_sinks, closes>>

\* close(): every handler in self._logger.handlers is closed, which stops
\* its worker, and removed from the logger.
Close(i) ==
    /\ ipc[i] = "made"
    /\ Len(closes) < MaxCloses
    /\ workers' = workers \ logger_handlers[inst_name[i]]
    /\ logger_handlers' = [logger_handlers EXCEPT ![inst_name[i]] = {}]
    /\ closes' = Append(closes, i)
    /\ UNCHANGED <<exceptOwner, ipc, inst_name, inst_sinks, created>>

OwnerNext ==
    \E i \in Instances :
        \/ Begin(i)
        \/ SetupConsole(i)
        \/ SetupFile(i)
        \/ Close(i)

OwnerSpec == OwnerInit /\ [][OwnerNext]_vars

(***************************************************************************)
(* A record with exception info on its way through                         *)
(* MultiprocessingHandler.emit, the queue and the sink's formatter         *)
(***************************************************************************)

\* A piece of formatted text: the message as formatter `by` lays it out, a
\* traceback, or a stack.
Piece(kind, by, text) == <<kind, by, text>>

\* logger.exception(msg) / logger.error(msg, exc_info=..., stack_info=...):
\* the LogRecord the logging module makes.
makeRecord(exc_info, stack_info, bad_args) ==
    [msg |-> "m", exc_info |-> exc_info, exc_text |-> <<>>,
     stack_info |-> stack_info, bad_args |-> bad_args]

ExcInit ==
    /\ HandlersInit /\ RotIdle /\ ColorIdle /\ LevelIdle /\ OwnerIdle
    /\ \E exc_info \in {"none", "ValueError", "KeyError"},
          stack_info \in {"none", "stack"},
          bad_args \in BOOLEAN,
          n \in 1..MaxHandlers :
          handling =
              [record |-> makeRecord(exc_info, stack_info, bad_args),
               logged |-> [exc_info |-> exc_info, stack_info |-> stack_info],
               handlers |-> n,
               at |-> 1,
               queue |-> [h \in 1..n |-> <<>>],
               enqueued |-> <<>>,
               output |-> <<>>]

\* logging.Formatter.format(record) of formatter `by`, for a record whose
\* message can be made: the message, then record.exc_text (formatException
\* of exc_info when there is exc_info and no exc_text yet), then the stack.
Format(by, record) ==
    LET exc_text ==
            IF record.exc_info # "none" /\ record.exc_text = <<>>
            THEN <<Piece("traceback", "", record.exc_info)>>
            ELSE record.exc_text
    IN  <<Piece("message", by, record.msg)>>
        \o exc_text
        \o (IF record.stack_info # "none"
             THEN <<Piece("stack", "", record.stack_info)>>
             ELSE <<>>)

serializeClearsOnly(record) ==
    [record EXCEPT !.exc_info = "none", !.stack_info = "none"]

\* emit(), before the put: with exc_info the record gets the whole formatted
\* text as exc_text and loses exc_info; stack_info is cleared in every case.
serialize(record) ==
    [record EXCEPT
        !.exc_text = IF record.exc_info # "none"
                     THEN Format("default", record) ELSE @,
        !.exc_info = "none",
        !.stack_info = "none"]

\* MultiprocessingHandler.emit(record) of handler h, called in turn by
\* Logger.callHandlers: self.format raises when the record has exc_info and
\* its message cannot be made, put_nowait raises when the queue is full;
\* both end in the except clause and the record is not queued.
HandleNext(h) ==
    /\ handling # <<>>
    /\ handling.at = h
    /\ h <= handling.handlers
    /\ \E full \in BOOLEAN :
          LET r == handling.record
              raises == r.exc_info # "none" /\ r.bad_args
              put == IF raises THEN r ELSE serialize(r)
              queued == ~raises /\ ~full
          IN  handling' =
                  [handling EXCEPT
                      !.record = put,
                      !.at = h + 1,
                      !.queue[h] = IF queued THEN Append(@, put) ELSE @,
                      !.enqueued =
                          IF queued THEN Append(@, <<h, put>>) ELSE @]
    /\ UNCHANGED exceptSide

\* The worker of handler h takes the record from the queue and hands it to
\* the sink, whose formatter lays it out; when the message cannot be made
\* the sink's handleError takes over and nothing is written.
Forward(h) ==
    /\ handling # <<>>
    /\ h <= handling.handlers
    /\ handling.queue[h] # <<>>
    /\ LET r == Head(handling.queue[h])
       IN  handling' =
               [handling EXCEPT
                   !.queue[h] = Tail(@),
                   !.output = IF r.bad_args THEN @
                              ELSE Append(@, <<h, Format("sink", r)>>)]
    /\ UNCHANGED exceptSide

ExcNext == \E h \in 1..MaxHandlers : HandleNext(h) \/ Forward(h)

ExcSpec == ExcInit /\ [][ExcNext]_vars

(***************************************************************************)
(* LoggerConfig: __post_init__, to_dict, from_dict                         *)
(***************************************************************************)

\* Python values with their type: int, str, pathlib.Path, None. The text of
\* a path, and a Path, are kept as the sequence of their segments, a
\* segment as <<stem, suffix>>.
Int(n) == [t |-> "int", v |-> n]
Str(x) == [t |-> "str", v |-> x]
PathOf(parts) == [t |-> "path", v |-> parts]
NoneValue == [t |-> "none", v |-> <<>>]

\* The segment "." and the text "."
Dot == <<".", "">>

\* bool(value): None and the empty string are false, a Path is always true.
IsTrue(value) ==
    CASE value.t = "none" -> FALSE
      [] value.t = "str" -> value.v # <<>>
      [] OTHER -> TRUE

RECURSIVE NoDots(_)
\* The segments pathlib keeps of a relative path: "." segments are dropped.
NoDots(parts) ==
    IF parts = <<>> THEN <<>>
    ELSE IF Head(parts) = Dot THEN NoDots(Tail(parts))
    ELSE <<Head(parts)>> \o NoDots(Tail(parts))

\* Path(value) for a str or a Path.
Path(value) == IF value.t = "path" THEN value ELSE PathOf(NoDots(value.v))

\* str(value) for a str or a Path: a Path with no segment is ".".
str(value) ==
    IF value.t = "path"
    THEN Str(IF value.v = <<>> THEN <<Dot>> ELSE value.v)
    ELSE value

\* str.upper() on the level names used here.
upper(name) == IF name = "debug" THEN "DEBUG" ELSE name

\* getattr(logging, name, logging.INFO): the level constants are ints,
\* logging.BASIC_FORMAT is a str, a name the module does not have gives INFO.
getattr_logging(name) ==
    IF name \in DOMAIN levelno THEN Int(levelno[name])
    ELSE IF name = "BASIC_FORMAT" THEN Str("%(levelname)s:%(name)s:%(message)s")
    ELSE Int(levelno.INFO)

\* The fields of a LoggerConfig that __post_init__, to_dict and from_dict
\* treat in a way of their own or that the round trip is compared on; the
\* formats, date_format and use_colors are copied as they are.
ConfigFields ==
    {"name", "log_level", "log_to_console", "log_to_file", "log_file",
     "log_dir", "max_file_size", "backup_count"}

\* __post_init__ on the fields as given: <<fields after it, directory made>>.
post_init(a) ==
    LET log_level == IF a.log_level.t = "str"
                     THEN getattr_logging(upper(a.log_level.v))
                     ELSE a.log_level
        named == IF a.log_to_file /\ ~IsTrue(a.log_file)
                 THEN IF IsTrue(a.log_dir)
                      THEN PathOf(Path(a.log_dir).v \o <<<<a.name, ".log">>>>)
                      ELSE Str(<<<<a.name, ".log">>>>)
                 ELSE a.log_file
        log_file == IF IsTrue(named) THEN Path(named) ELSE named
        parent == IF IsTrue(named) /\ log_file.v # <<>>
                  THEN {SubSeq(log_file.v, 1, Len(log_file.v) - 1)}
                  ELSE {}
    IN  <<[a EXCEPT !.log_level = log_level, !.log_file = log_file], parent>>

\* to_dict()
to_dict(c) ==
    [c EXCEPT
        !.log_file = IF IsTrue(c.log_file) THEN str(c.log_file) ELSE NoneValue,
        !.log_dir = IF IsTrue(c.log_dir) THEN str(c.log_dir) ELSE NoneValue]

\* from_dict(config_dict): cls(**config_dict), so __post_init__ again.
from_dict(d) == post_init(d)

\* The arguments of a LoggerConfig(...) call.
ConfigArgs ==
    [name : Names,
     log_level : {Int(10), Int(20), Str("DEBUG"), Str("debug"), Str("loud"),
                  Str("BASIC_FORMAT")},
     log_to_console : {TRUE},
     log_to_file : BOOLEAN,
     log_file : {NoneValue, Str(<<>>), Str(<<<<"test", ".log">>>>),
                 Str(<<Dot, <<"test", ".log">>>>),
                 PathOf(<<<<"out", "">>, <<"test", ".log">>>>)},
     log_dir : {NoneValue, Str(<<<<"logs", "">>>>)},
     max_file_size : {1024},
     backup_count : {0, 3}]

CfgInit ==
    /\ HandlersInit /\ RotIdle /\ ColorIdle /\ LevelIdle /\ OwnerIdle
    /\ \E a \in ConfigArgs :
          cfg = [step |-> "args", args |-> a, c |-> a, d |-> a, c2 |-> a,
                 dirs |-> {}]

\* c = LoggerConfig(**args)
MakeConfig ==
    /\ cfg.step = "args"
    /\ cfg' = [cfg EXCEPT !.step = "made",
                          !.c = post_init(cfg.args)[1],
                          !.dirs = @ \cup post_init(cfg.args)[2]]
    /\ UNCHANGED exceptSide

\* d = c.to_dict()
ToDict ==
    /\ cfg.step = "made"
    /\ cfg' = [cfg EXCEPT !.step = "dict", !.d = to_dict(cfg.c)]
    /\ UNCHANGED exceptSide

\* c2 = LoggerConfig.from_dict(d)
FromDict ==
    /\ cfg.step = "dict"
    /\ cfg' = [cfg EXCEPT !.step = "back",
                          !.c2 = from_dict(cfg.d)[1],
                          !.dirs = @ \cup from_dict(cfg.d)[2]]
    /\ UNCHANGED exceptSide

CfgNext == MakeConfig \/ ToDict \/ FromDict

CfgSpec == CfgInit /\ [][CfgNext]_vars

(***************************************************************************)
(* MultiprocessingHandler.start and stop called from several threads       *)
(***************************************************************************)

\* MultiprocessingHandler.__init__ has returned: start() made thread 1.
LifeInit ==
    /\ HandlersInit /\ RotIdle /\ ColorIdle /\ LevelIdle /\ OwnerIdle
    /\ life = [made |-> 1, alive |-> {1}, thread |-> 1, stop_event |-> FALSE,
               sentinels |-> 0, at |-> [c \in Callers |-> "idle"],
               joined |-> [c \in Callers |-> None]]

\* self._thread.is_alive()
thread_alive == life.thread \in life.alive

\* start(), the test: `if self._thread is None or not
\* self._thread.is_alive()`. With a live worker start() returns at once.
StartTest(c) ==
    /\ life.at[c] = "idle"
    /\ ~thread_alive
    /\ life' = [life EXCEPT !.at[c] = "start"]
    /\ UNCHANGED exceptSide

\* start(), the body: clear the event, make the thread, start it.
StartThread(c) ==
    /\ life.at[c] = "start"
    /\ life.made < MaxThreads
    /\ life' = [life EXCEPT !.stop_event = FALSE,
                            !.made = @ + 1,
                            !.thread = life.made + 1,
                            !.alive = @ \cup {life.made + 1},
                            !.at[c] = "idle"]
    /\ UNCHANGED exceptSide

\* stop() up to the join: with a live worker, set the event and put the
\* sentinel (nothing when the queue is full). With none, stop() returns.
StopCall(c) ==
    /\ life.at[c] = "idle"
    /\ thread_alive
    /\ life' = [life EXCEPT
                   !.stop_event = TRUE,
                   !.sentinels = IF @ >= MaxQueue THEN @ ELSE @ + 1,
                   !.at[c] = "join",
                   !.joined[c] = life.thread]
    /\ UNCHANGED exceptSide

\* self._thread.join(timeout=1.0) returns: the thread has finished, or the
\* second has passed with the worker inside the sink.
JoinDone(c) ==
    /\ life.at[c] = "join"
    /\ \E timedOut \in BOOLEAN : timedOut \/ life.joined[c] \notin life.alive
    /\ life' = [life EXCEPT !.at[c] = "idle", !.joined[c] = None]
    /\ UNCHANGED exceptSide

\* _worker of thread w leaves its loop: the event is set at the loop test.
ExitOnEvent(w) ==
    /\ w \in life.alive
    /\ life.stop_event
    /\ life' = [life EXCEPT !.alive = @ \ {w}]
    /\ UNCHANGED exceptSide

\* _worker of thread w leaves its loop: queue.get returned the sentinel.
ExitOnSentinel(w) ==
    /\ w \in life.alive
    /\ life.sentinels > 0
    /\ life' = [life EXCEPT !.alive = @ \ {w}, !.sentinels = @ - 1]
    /\ UNCHANGED exceptSide

LifeNext ==
    \/ \E c \in Callers :
          StartTest(c) \/ StartThread(c) \/ StopCall(c) \/ JoinDone(c)
    \/ \E w \in 1..MaxThreads : ExitOnEvent(w) \/ ExitOnSentinel(w)

LifeSpec == LifeInit /\ [][LifeNext]_vars

(***************************************************************************)
(* Several SafeRotatingFileHandlers on one path                            *)
(***************************************************************************)

\* Each process has built its sink with create_file_handler on the same
\* path: the first open made file 1, every stream is open on it (mode 'a').
SharedInit ==
    /\ HandlersInit /\ RotIdle /\ ColorIdle /\ LevelIdle /\ OwnerIdle
    /\ \E m \in 0..MaxSharedBytes, c \in 0..MaxBackupCount :
          shared = [maxBytes |-> m, backupCount |-> c, files |-> <<<<>>>>,
                    path |-> 1, names |-> <<>>,
                    stream |-> [p \in Procs |-> 1],
                    appends |-> <<>>, rolls |-> <<>>]

\* emit(record) of the sink of process p, for a line of n bytes, under the
\* sink's own lock: shouldRollover looks at the end of the file its stream
\* is open on; doRollover closes the stream, renames the files by name
\* (whatever files the names stand for by now) and opens the path again,
\* which makes a new file when the name was renamed away; then the line is
\* written to the stream.
SharedEmit(p) ==
    /\ Len(shared.appends) < MaxAppends
    /\ \E n \in 1..MaxLineLen :
          LET old == shared.stream[p]
              roll == /\ shared.maxBytes > 0
                      /\ Bytes(shared.files[old]) + n >= shared.maxBytes
              renames == roll /\ shared.backupCount > 0
              b == shift(shared.names, shared.backupCount - 1)
              names == IF renames
                       THEN [j \in DOMAIN b \cup {1} |->
                                IF j = 1 THEN shared.path ELSE b[j]]
                       ELSE shared.names
              files == IF renames THEN Append(shared.files, <<>>)
                       ELSE shared.files
              path == IF renames THEN Len(files) ELSE shared.path
              new == IF roll THEN path ELSE old
              line == <<Len(shared.appends) + 1, n>>
          IN  shared' =
                  [shared EXCEPT
                      !.files = [files EXCEPT ![new] = Append(@, line)],
                      !.path = path,
                      !.names = names,
                      !.stream[p] = new,
                      !.appends = Append(@, [by |-> p, file |-> new,
                                             path |-> path]),
                      !.rolls = IF roll
                                THEN Append(@, [by |-> p, file |-> old])
                                ELSE @]
    /\ UNCHANGED exceptSide

SharedNext == \E p \in Procs : SharedEmit(p)

SharedSpec == SharedInit /\ [][SharedNext]_vars

(***************************************************************************)
(* Properties                                                              *)
(***************************************************************************)

\* Number of records emit() of p's handler took and did not queue.
Dropped(p) == nextId[p] - Len(enqueued[p])

\* The fields of a MultiprocessingHandler and of the sink it wraps.
HandlerFields(p) ==
    <<queue[p], wpc[p], stop_event[p], cur[p], stream[p], lock[LockOf(p)]>>

\* C1: when close() of a JMTLogger returns and the worker has finished, every
\* record queued before the close is in the log file, unless the sink's
\* write of it raised.
CloseDrainsQueue ==
    [][\A p \in Procs :
          (attached[p] /\ ~attached'[p] /\ wpc'[p] = "done")
              => \A r \in Range(enqueued[p]) :
                    <<p, r>> \in Range(file') \/ r \in failed'[p]]_vars

\* C2: the records handed to the sink's emit are, in order and each once, the
\* first records accepted onto the queue.
ForwardedInOrder ==
    \A p \in Procs :
        /\ Len(forwarded[p]) <= Len(enqueued[p])
        /\ \A i \in 1..Len(forwarded[p]) : forwarded[p][i] = enqueued[p][i]

ForwardedInOrderWitness ==
    \E p \in Procs : Len(forwarded[p]) >= 2 /\ forwarded[p] = enqueued[p]

\* C3: no error of emit() reaches its caller.
EmitNeverRaises == \A p \in Procs : ~callerError[p]

EmitNeverRaisesWitness ==
    \E p \in Procs : Dropped(p) >= 1 /\ caller[p] = "idle" /\ ~callerError[p]

\* C4: after a write has raised in the sink, the worker keeps forwarding: a
\* record waiting in the queue is handed to the sink, unless a stop() or
\* close() is called first.
SinkErrorThenForwarded ==
    \A p \in Procs : \A r \in Records :
        (failed[p] # {} /\ r \in Range(queue[p]))
            ~> (r \in Range(forwarded[p]) \/ stops > 0)

\* The write of record 1 raised and record 2 was handed to the sink after it.
SinkErrorThenForwardedWitness ==
    \E p \in Procs :
        /\ stops = 0
        /\ failed[p] = {1}
        /\ Len(forwarded[p]) >= 2

\* C4, the safety half: a write that raised does not end the worker thread.
SinkErrorKeepsWorker ==
    \A p \in Procs : (failed[p] # {} /\ stops = 0) => is_alive(p)

\* C5: a record dropped on a full queue is not queued, emit() returns at once,
\* and the drop is counted in the handler: some field of it changes.
DropIsCounted ==
    [][\A p \in Procs :
          (QueueFull(p) /\ nextId'[p] = nextId[p] + 1)
              => /\ enqueued'[p] = enqueued[p]
                 /\ caller'[p] = "idle"
                 /\ HandlerFields(p)' # HandlerFields(p)]_vars

\* C6: a stop() or close() called after an earlier one has returned, with no
\* start() between, changes nothing and returns at once.
ShutdownIdempotent ==
    [][\A p \in Procs :
          (shut[p] /\ stops' = stops + 1)
              => /\ queue'[p] = queue[p]
                 /\ stop_event'[p] = stop_event[p]
                 /\ caller'[p] = "idle"
                 /\ (closed[p] => stream'[p] = stream[p])]_vars

\* C7: a stop() that has begun returns, also when the worker thread stays
\* inside the sink's write for ever.
StopReturns ==
    \A p \in Procs : (caller[p] # "idle") ~> (caller[p] = "idle")

\* A stop() has returned while the worker was still inside the sink.
StopReturnsWitness ==
    \E p \in Procs : shut[p] /\ caller[p] = "idle" /\ in_sink(p)

\* C8: once close() of the handler has returned, the sink's stream is closed.
ClosedStaysClosed ==
    \A p \in Procs : (closed[p] /\ caller[p] = "idle") => stream[p] = "closed"

\* C9: after close() has returned no record is added to the delivery queue.
ClosedRejectsWrites ==
    [][\A p \in Procs : closed[p] => enqueued'[p] = enqueued[p]]_vars

\* C10: no two sink instances on the same path are inside the critical
\* section of emit at the same time.
MutualExclusion ==
    \A p, q \in Procs : (p # q /\ wpc[p] = "cs") => wpc[q] # "cs"

\* The piece of the file at place i is the head of a line whose rest is
\* written separately.
IsHead(i) == Len(file[i]) = 3 /\ file[i][3] = "head"

\* C11: every line of the file is one writer's record: the head of a line is
\* followed by the rest of the same record of the same writer, nothing of
\* another record comes between them.
NoInterleavedLines ==
    \A i \in 1..Len(file) :
        (IsHead(i) /\ i < Len(file))
            => file[i + 1] = <<file[i][1], file[i][2], "tail">>

\* Number of doRollover() calls so far.
rotations == Len(rotated)

Min(a, b) == IF a < b THEN a ELSE b

RECURSIVE Flatten(_)
\* The contents of a sequence of files, one after the other.
Flatten(fs) == IF fs = <<>> THEN <<>> ELSE Head(fs) \o Flatten(Tail(fs))

\* The backups from the highest suffix down to .1, then the active file.
OldestFirst ==
    LET k == Cardinality(DOMAIN backups)
    IN  Flatten([j \in 1..k |-> backups[k + 1 - j]]) \o active

\* C12: with maxBytes > 0 and backupCount > 0, after R rotations the backups
\* are .1 to .min(R, backupCount); .i holds what the i-th latest rotation
\* moved out; the active file holds the lines written since the last
\* rotation.
BackupsAfterRotations ==
    (maxBytes > 0 /\ backupCount > 0) =>
        /\ DOMAIN backups = 1..Min(rotations, backupCount)
        /\ \A i \in DOMAIN backups : backups[i] = rotated[rotations + 1 - i]
        /\ Flatten(rotated) \o active = written

\* More rotations than backupCount: the oldest backup has been evicted.
BackupsAfterRotationsWitness ==
    /\ backupCount = 2
    /\ rotations = 3
    /\ rotated[1] # <<>>
    /\ DOMAIN backups = {1, 2}

\* C13: while the rotations are no more than backupCount, the backups, oldest
\* first, and then the active file hold the lines written, each once and in
\* the order written, and as many bytes as were written.
RotationKeepsRecords ==
    rotations <= backupCount =>
        /\ DOMAIN backups = 1..Cardinality(DOMAIN backups)
        /\ OldestFirst = written
        /\ Bytes(OldestFirst) = Bytes(written)

RotationKeepsRecordsWitness ==
    /\ rotations = 2
    /\ backupCount = 2
    /\ Len(backups[2]) >= 1
    /\ Len(backups[1]) >= 1
    /\ Len(active) >= 1

\* C14: with backupCount = 0 and maxBytes > 0 a rotation leaves an active file
\* with none of the lines written before it, and makes no backup.
RotationTruncates ==
    [][(backupCount = 0 /\ maxBytes > 0 /\ Len(rotated') > Len(rotated))
          => /\ Range(active') \cap Range(written) = {}
             /\ DOMAIN backups' = {}]_vars

\* C15: the wait for the lock in emit is bounded: a worker that waits for a
\* lock whose holder has died stops waiting (and the failure is reported).
LockWaitBounded ==
    \A p \in Procs :
        (wpc[p] = "emit" /\ lock[LockOf(p)] = "orphaned") ~> (wpc[p] # "emit")

\* C15, the safety half: the sink writes only while its worker holds the lock.
WritesUnderLock ==
    \A p \in Procs : wpc[p] \in {"cs", "rest"} => lock[LockOf(p)] = "held"

\* The terminal capability signal: the Windows version on Windows, TERM
\* elsewhere.
Capability ==
    IF os_name = "nt" THEN win10 ELSE TermHasColor(lower(getenv("TERM", "")))

\* C16: detection gives off when the disable flag is set; else on when the
\* force flag is set, also when the stream is no terminal; else off when the
\* stream is no terminal; else what the capability signal says.
DetectionPrecedence ==
    formatter.detected # "none" =>
        (formatter.detected = "on") =
            (IF Truthy("NO_COLOR") THEN FALSE
             ELSE IF Truthy("FORCE_COLOR") THEN TRUE
             ELSE IF ~isatty THEN FALSE
             ELSE Capability)

\* Pieces of a line that are escape sequences.
Escapes(text) ==
    {i \in 1..Len(text) : text[i] = RESET \/ \E l \in DOMAIN COLORS : text[i] = COLORS[l]}

\* C17: with the disable flag set, no line formatted by a handler made by
\* create_console_handler holds an escape sequence.
NoColorMeansNoEscapes ==
    Truthy("NO_COLOR") =>
        \A i \in 1..Len(console) :
            console[i].formatter.by = "create_console_handler"
                => Escapes(console[i].text) = {}

\* The color of an SGR escape sequence (ECMA-48: 31 red, 32 green,
\* 33 yellow, 35 magenta, 36 cyan).
ColorName(code) ==
    CASE code = "ESC[31m" -> "red"
      [] code = "ESC[32m" -> "green"
      [] code = "ESC[33m" -> "yellow"
      [] code = "ESC[35m" -> "magenta"
      [] code = "ESC[36m" -> "cyan"
      [] OTHER -> "none"

\* The color the levels are to have.
LevelColor ==
    [DEBUG |-> "cyan", INFO |-> "green", WARNING |-> "yellow",
     ERROR |-> "red", CRITICAL |-> "magenta"]

\* C18: a ColoredFormatter with colors off returns the base line; with colors
\* on, the base line between one start code of the level's color and one
\* reset code for the five standard levels, the base line for other levels.
FormatWraps ==
    \A i \in 1..Len(console) :
        LET e == console[i]
        IN  e.formatter.class = "ColoredFormatter" =>
                IF e.formatter.use_colors /\ e.levelname \in DOMAIN LevelColor
                THEN /\ Len(e.text) = Len(e.base) + 2
                     /\ ColorName(e.text[1]) = LevelColor[e.levelname]
                     /\ SubSeq(e.text, 2, Len(e.text) - 1) = e.base
                     /\ e.text[Len(e.text)] = RESET
                     /\ Escapes(e.text) = {1, Len(e.text)}
                ELSE e.text = e.base

\* A colored line of every standard level, and an uncolored one of another.
FormatWrapsWitness ==
    \E i \in 1..Len(console) :
        /\ console[i].formatter.class = "ColoredFormatter"
        /\ console[i].formatter.use_colors
        /\ console[i].levelname = "WARNING"
        /\ console[i].text = <<"ESC[33m", "m", "n", "ESC[0m">>

\* C19: a message logged after set_level(L) at a level of L or more reaches
\* every configured sink, also when L is below the level of construction.
SetLevelReachesSinks ==
    \A i \in 1..Len(logged) :
        LET e == logged[i]
        IN  (e.set_levels # <<>> /\ e.levelno >= e.set_levels[Len(e.set_levels)])
                => e.sinks = DOMAIN hlevel

\* C20: when close() of a JMTLogger returns, no worker that object made is
\* running, and the call has stopped no worker made by another object.
CloseStopsOwnWorkers ==
    [][\A i \in Instances :
          closes' = Append(closes, i)
              => /\ created[i] \cap workers' = {}
                 /\ (workers \ workers') \subseteq created[i]]_vars

\* C21: when the constructor of a JMTLogger raises because a sink cannot be
\* made, it has started no worker.
ConfigErrorBeforeWorkers ==
    \A i \in Instances : ipc[i] = "raised" => created[i] = {}

\* C30: a logger name has at most one console handler and at most one file
\* handler attached at any time, also while several constructors for that
\* name run at once.
OneWorkerPerSink ==
    \A n \in Names : \A k \in Sinks :
        Cardinality({h \in logger_handlers[n] : h[2] = k}) <= 1

\* C28: once stop() or close() of a handler has returned, no later step
\* starts a worker thread of that handler again, and no later step forwards
\* a record of it to the sink.
NoResurrection ==
    [][\A p \in Procs :
          shut[p] => /\ ~is_alive(p) => ~is_alive(p)'
                     /\ forwarded'[p] = forwarded[p]]_vars

\* C29: a worker thread ends only after a stop request made during its own
\* run: in the step in which a worker ends, the stop event (cleared by the
\* start() that made the worker, set only by stop()) is set; a sentinel left
\* in the queue by an earlier stop() does not end it.
WorkerExitsOnlyOnStop ==
    [][\A p \in Procs :
          (is_alive(p) /\ ~is_alive(p)') => stop_event[p]]_vars

\* max_bytes=100, backup_count=2 and five records of 30 bytes have been
\* written.
FiveRecordsOfThirty ==
    /\ maxBytes = 10
    /\ backupCount = 2
    /\ Len(written) = 5
    /\ \A k \in 1..5 : written[k][2] = 3

ActiveSizeBounded ==
    ( /\ maxBytes > 0
      /\ \A k \in 1..Len(written) : written[k][2] < maxBytes )
        => Bytes(active) <= maxBytes

\* The traceback of the exception the call was made with, as text.
Traceback == Piece("traceback", "", handling.logged.exc_info)

\* C22: every record put on a queue has exc_info and stack_info cleared;
\* when the call was made with exception info, the traceback is in exc_text
\* of the queued record and in every text a sink writes for the record.
FailureDetailAsText ==
    /\ \A k \in 1..Len(handling.enqueued) :
          LET record == handling.enqueued[k][2]
          IN  /\ record.exc_info = "none"
              /\ record.stack_info = "none"
              /\ handling.logged.exc_info # "none"
                    => Traceback \in Range(record.exc_text)
    /\ \A k \in 1..Len(handling.output) :
          handling.logged.exc_info # "none"
              => Traceback \in Range(handling.output[k][2])

FailureDetailAsTextWitness ==
    /\ handling.logged.exc_info # "none"
    /\ handling.logged.stack_info # "none"
    /\ Len(handling.enqueued) = 2
    /\ Len(handling.output) = 2

\* C23: for every LoggerConfig c, from_dict(c.to_dict()) equals c on name,
\* log_level, log_to_console, log_to_file, log_file, max_file_size and
\* backup_count.
ConfigRoundTrip ==
    cfg.step = "back"
        => \A f \in ConfigFields \ {"log_dir"} : cfg.c2[f] = cfg.c[f]

\* C27: at most one worker thread of a handler is alive at any time, for
\* any interleaving of start() and stop() calls.
AtMostOneWorker == Cardinality(life.alive) <= 1

\* C26: with several sinks on one path, every line is written into the file
\* that is at the path at the moment of the write, and, where rollovers
\* rename, no two sinks roll over on the size of the same file.
AppendsLandInActiveFile ==
    /\ \A k \in 1..Len(shared.appends) :
          shared.appends[k].file = shared.appends[k].path
    /\ shared.backupCount > 0
          => \A j, k \in 1..Len(shared.rolls) :
                shared.rolls[j].by # shared.rolls[k].by
                    => shared.rolls[j].file # shared.rolls[k].file

====
